---- MODULE Spec2Model ----
(***************************************************************************)
(* Model of the mbox -> SQLite ingestion pipeline:                         *)
(*   src/src/mbox_message.py   MboxMessage (normalizer, identity and       *)
(*                             timestamp resolvers, canonical JSON)        *)
(*   src/src/mbox_database.py  MboxDatabase (schema, insert statement)     *)
(*   src/src/main.py           process_mbox, create_indexes                *)
(*                                                                         *)
(* Text is modelled as a sequence of atoms (short strings): strip, split,  *)
(* startswith and concatenation work on atoms.  Instants are seconds since *)
(* the Unix epoch; strftime output is the tuple <<Y, M, D, h, m, s>>.       *)
(***************************************************************************)
EXTENDS Integers, Sequences, FiniteSets, TLC

VARIABLES
    msgs,     \* raw messages handed to MboxMessage(...) one after the other
    outs,     \* outcome of each construction so far
    clock,    \* wall clock, in seconds after ClockBase
    plan,     \* the mbox given to each invocation of process_mbox
    run,      \* number of invocations of process_mbox started so far
    pc,       \* position inside process_mbox
    pos,      \* number of messages of the mbox consumed by the loop
    batch,    \* process_mbox's in-memory batch of tuples
    conn,     \* the connection's view of the database (open transaction)
    disk,     \* the committed database
    err,      \* how the current/last invocation ended or is going
    hist      \* bookkeeping about the invocations, for the properties

vars == <<msgs, outs, clock, plan, run, pc, pos, batch, conn, disk, err, hist>>

(***************************************************************************)
(* Bounds                                                                  *)
(***************************************************************************)
MaxLen == 3       \* longest mbox
batch_size == 2    \* stands for batch_size (5000 in the source)
MaxClock == 1     \* ticks of the wall clock

ClockBase == 1793800000   \* wall clock at the start, seconds since epoch

(***************************************************************************)
(* Text helpers                                                            *)
(***************************************************************************)
Ws == {" "}

RECURSIVE LStrip(_)
LStrip(s) == IF s # <<>> /\ Head(s) \in Ws THEN LStrip(Tail(s)) ELSE s

RECURSIVE RStrip(_)
RStrip(s) ==
    IF s # <<>> /\ s[Len(s)] \in Ws THEN RStrip(SubSeq(s, 1, Len(s) - 1)) ELSE s

\* str.strip()
Strip(s) == RStrip(LStrip(s))

\* str.split(","): the pieces between the "," atoms
RECURSIVE SplitComma(_, _)
SplitComma(s, cur) ==
    IF s = <<>> THEN <<cur>>
    ELSE IF Head(s) = "," THEN <<cur>> \o SplitComma(Tail(s), <<>>)
    ELSE SplitComma(Tail(s), Append(cur, Head(s)))

\* str.lower() on the header names and mime types that occur
Lower(a) ==
    CASE a = "Message-ID" -> "message-id"
      [] a = "Date" -> "date"
      [] a = "Subject" -> "subject"
      [] a = "Content-Type" -> "content-type"
      [] a = "Content-type" -> "content-type"
      [] a = "X-Gmail-Labels" -> "x-gmail-labels"
      [] a = "TEXT/XML" -> "text/xml"
      [] OTHER -> a

\* Code-point order of the dictionary keys that occur (json sort_keys)
NameRank(a) ==
    CASE a = "A" -> 1
      [] a = "B" -> 2
      [] a = "Content-Type" -> 3
      [] a = "Content-type" -> 4
      [] a = "Date" -> 5
      [] a = "Message-ID" -> 6
      [] a = "Subject" -> 7
      [] a = "X-Bad" -> 8
      [] a = "X-Gmail-Labels" -> 9
      [] OTHER -> 10

(***************************************************************************)
(* Header Decoder: str(make_header(decode_header(raw_value)))              *)
(* A raw header value is a sequence of chunks [cs, bytes]: cs = "" is      *)
(* plain text, otherwise the chunk is an encoded-word naming charset cs.   *)
(* The byte atom "0xFF" is a byte that is invalid in utf-8 and us-ascii.   *)
(***************************************************************************)
KnownCharsets == {"utf-8", "us-ascii", "latin-1"}

\* bytes.decode(cs, errors="replace") for a charset Python knows
DecodeReplace(data, cs) ==
    [i \in 1..Len(data) |->
        IF data[i] = "0xFF" THEN (IF cs = "latin-1" THEN "U+00FF" ELSE "U+FFFD")
        ELSE data[i]]

\* Header.append(s, charset): bytes.decode(charset, "strict")
DecodeChunk(seg) ==
    IF seg.cs = "" THEN [exc |-> "none", text |-> seg.bytes]
    ELSE IF seg.cs \notin KnownCharsets THEN [exc |-> "LookupError", text |-> <<>>]
    ELSE IF seg.cs # "latin-1" /\ \E i \in 1..Len(seg.bytes) : seg.bytes[i] = "0xFF"
         THEN [exc |-> "UnicodeDecodeError", text |-> <<>>]
    ELSE [exc |-> "none", text |-> DecodeReplace(seg.bytes, seg.cs)]

RECURSIVE DecodeHeader(_)
DecodeHeader(raw) ==
    IF raw = <<>> THEN [exc |-> "none", text |-> <<>>]
    ELSE LET c == DecodeChunk(Head(raw))
             r == DecodeHeader(Tail(raw))
         IN  IF c.exc # "none" THEN c
             ELSE IF r.exc # "none" THEN r
             ELSE [exc |-> "none", text |-> c.text \o r.text]

\* str(raw_value): the header as written, encoded-words left encoded
RECURSIVE RawText(_)
RawText(raw) ==
    IF raw = <<>> THEN <<>>
    ELSE (IF Head(raw).cs = "" THEN Head(raw).bytes
          ELSE <<"=?", Head(raw).cs, "?q?">> \o Head(raw).bytes \o <<"?=">>)
         \o RawText(Tail(raw))

\* Message.get(name): first occurrence, names compared case-insensitively
MsgGet(m, name) ==
    LET hit == {i \in 1..Len(m.headers) : Lower(m.headers[i].name) = Lower(name)}
    IN  IF hit = {} THEN [found |-> FALSE, text |-> <<>>]
        ELSE [found |-> TRUE,
              text |-> RawText(m.headers[CHOOSE i \in hit : \A j \in hit : i <= j].raw)]

(***************************************************************************)
(* MIME Normalizer: MboxMessage._msg_to_dict                               *)
(***************************************************************************)
\* headers.setdefault(name, []).append(decoded_value); a dict keeps its keys
\* in insertion order
DictAppend(d, name, value) ==
    IF \E i \in 1..Len(d) : d[i].name = name
    THEN [i \in 1..Len(d) |->
            IF d[i].name = name
            THEN [name |-> name, values |-> Append(d[i].values, value)]
            ELSE d[i]]
    ELSE Append(d, [name |-> name, values |-> <<value>>])

RECURSIVE CollectHeaders(_, _)
CollectHeaders(items, d) ==
    IF items = <<>> THEN [exc |-> "none", headers |-> d]
    ELSE LET v == DecodeHeader(Head(items).raw)
         IN  IF v.exc # "none" THEN [exc |-> v.exc, headers |-> <<>>]
             ELSE CollectHeaders(Tail(items), DictAppend(d, Head(items).name, v.text))

MimeTypes == {"text/plain", "text/xml", "application/pdf",
              "multipart/mixed", "multipart/alternative"}

\* Message.get_content_type(): lower-cased type of the first Content-Type
\* header, text/plain when there is none or it is not a type/subtype
GetContentType(m) ==
    LET h == MsgGet(m, "Content-Type")
    IN  IF h.found /\ h.text # <<>> /\ Lower(h.text[1]) \in MimeTypes
        THEN Lower(h.text[1]) ELSE "text/plain"

\* Message.get_content_charset(failobj="utf-8")
GetContentCharset(m) ==
    LET h == MsgGet(m, "Content-Type")
        at == {i \in 1..Len(h.text) - 1 : h.text[i] = "charset="}
    IN  IF at = {} THEN "utf-8" ELSE h.text[(CHOOSE i \in at : TRUE) + 1]

\* content_type.startswith("text/")
StartsWithText(ct) == ct \in {"text/plain", "text/xml"}

\* base64.b64encode(data).decode("ascii")
B64Encode(data) == [i \in 1..Len(data) |-> <<"b64", data[i]>>]

NoText == <<>>

TextLeaf(ct, cs, text) ==
    [type |-> "text", content_type |-> ct, charset |-> cs, text |-> text,
     data_b64 |-> <<>>, parts |-> <<>>]

BinaryLeaf(ct, data) ==
    [type |-> "binary", content_type |-> ct, charset |-> "", text |-> NoText,
     data_b64 |-> B64Encode(data), parts |-> <<>>]

\* a multipart payload is the Python list of the parts' dicts
PartList(parts) ==
    [type |-> "list", content_type |-> "", charset |-> "", text |-> NoText,
     data_b64 |-> <<>>, parts |-> parts]

NoDoc == [headers |-> <<>>, payload |-> PartList(<<>>)]

\* returns [exc, doc]; an exception raised for a header or inside a part
\* propagates out of the whole call
RECURSIVE msg_to_dict(_)
msg_to_dict(m) ==
    LET h == CollectHeaders(m.headers, <<>>)
        sub == [i \in 1..Len(m.parts) |-> msg_to_dict(m.parts[i])]
        bad == {i \in 1..Len(m.parts) : sub[i].exc # "none"}
        ct == GetContentType(m)
        cs == GetContentCharset(m)
        \* LookupError on an unknown charset: decode as utf-8 instead
        text == DecodeReplace(m.data, IF cs \in KnownCharsets THEN cs ELSE "utf-8")
    IN  IF h.exc # "none" THEN [exc |-> h.exc, doc |-> NoDoc]
        ELSE IF m.multipart
        THEN IF bad # {}
             THEN [exc |-> sub[CHOOSE i \in bad : \A j \in bad : i <= j].exc,
                   doc |-> NoDoc]
             ELSE [exc |-> "none",
                   doc |-> [headers |-> h.headers,
                            payload |-> PartList([i \in 1..Len(m.parts) |-> sub[i].doc])]]
        ELSE [exc |-> "none",
              doc |-> [headers |-> h.headers,
                       payload |-> IF StartsWithText(ct)
                                   THEN TextLeaf(ct, cs, text)
                                   ELSE BinaryLeaf(ct, m.data)]]

(***************************************************************************)
(* Canonicalizer and Identity Resolver                                     *)
(***************************************************************************)
\* the entries of a dict ordered by key, as json.dumps(sort_keys=True) emits
RECURSIVE SortKeys(_)
SortKeys(d) ==
    IF d = <<>> THEN <<>>
    ELSE LET lo == CHOOSE i \in 1..Len(d) :
                       \A j \in 1..Len(d) : NameRank(d[i].name) <= NameRank(d[j].name)
         IN  <<d[lo]>> \o SortKeys([k \in 1..Len(d) - 1 |-> IF k < lo THEN d[k] ELSE d[k + 1]])

\* json.dumps without sort_keys: keys in insertion order
RECURSIVE JsonDumpsUnsorted(_)
JsonDumpsUnsorted(doc) ==
    [headers |-> doc.headers,
     payload |-> [doc.payload EXCEPT
                     !.parts = [i \in 1..Len(doc.payload.parts) |->
                                   JsonDumpsUnsorted(doc.payload.parts[i])]]]

\* json.dumps(msg_dict, sort_keys=True, ...): the serialized text is modelled
\* by the tree it denotes, keys in sorted order, lists in list order
RECURSIVE JsonDumps(_)
JsonDumps(doc) ==
    [headers |-> SortKeys(doc.headers),
     payload |-> [doc.payload EXCEPT
                     !.parts = [i \in 1..Len(doc.payload.parts) |->
                                   JsonDumps(doc.payload.parts[i])]]]

\* hashlib.sha256(canonical).hexdigest(), taken to be collision-free
Sha256(canonical) == <<"sha256:", canonical>>

\* MboxMessage._hash_dict
hash_dict(doc) == Sha256(JsonDumps(doc))

\* an identity resolver that drops the angle brackets around the Message-ID
GetMessageIdUnbracketed(m, doc) ==
    LET h == MsgGet(m, "Message-ID")
        msg_id == Strip(IF h.found THEN h.text ELSE <<>>)
    IN  IF msg_id = <<>> THEN Sha256(JsonDumps(doc))
        ELSE SelectSeq(msg_id, LAMBDA a : a \notin {"<", ">"})

\* MboxMessage._get_or_generate_message_id
get_or_generate_message_id(m, doc) ==
    LET h == MsgGet(m, "Message-ID")
        msg_id == Strip(IF h.found THEN h.text ELSE <<>>)
    IN  IF msg_id = <<>> THEN hash_dict(doc) ELSE msg_id

(***************************************************************************)
(* Calendar arithmetic behind parsedate_to_datetime, astimezone(utc),      *)
(* datetime.fromtimestamp(..., tz=utc), strptime and strftime              *)
(***************************************************************************)
DaysFromCivil(y, m, d) ==
    LET yy == IF m <= 2 THEN y - 1 ELSE y
        era == yy \div 400
        yoe == yy - era * 400
        mp == IF m > 2 THEN m - 3 ELSE m + 9
        doy == (153 * mp + 2) \div 5 + d - 1
        doe == yoe * 365 + yoe \div 4 - yoe \div 100 + doy
    IN  era * 146097 + doe - 719468

\* seconds since the epoch of the UTC date-time <<Y, M, D, h, m, s>>
Timegm(c) == DaysFromCivil(c[1], c[2], c[3]) * 86400 + c[4] * 3600 + c[5] * 60 + c[6]

\* received_at.strftime("%Y-%m-%d %H:%M:%S") of a UTC instant
strftime(t) ==
    LET z == t \div 86400 + 719468
        sod == t % 86400
        era == z \div 146097
        doe == z - era * 146097
        yoe == (doe - doe \div 1460 + doe \div 36524 - doe \div 146096) \div 365
        doy == doe - (365 * yoe + yoe \div 4 - yoe \div 100)
        mp == (5 * doy + 2) \div 153
        d == doy - (153 * mp + 2) \div 5 + 1
        m == IF mp < 10 THEN mp + 3 ELSE mp - 9
        y == yoe + era * 400 + (IF m <= 2 THEN 1 ELSE 0)
    IN  <<y, m, d, sod \div 3600, (sod % 3600) \div 60, sod % 60>>

\* the tokens of a Date header that the date grammar accepts
DayTokens == [a \in {"1", "31"} |-> IF a = "1" THEN 1 ELSE 31]
MonthTokens == [a \in {"Jan", "Dec"} |-> IF a = "Jan" THEN 1 ELSE 12]
YearTokens == [a \in {"2023", "2024"} |-> IF a = "2023" THEN 2023 ELSE 2024]
TimeTokens == [a \in {"12:00:00", "23:30:00"} |->
                  IF a = "12:00:00" THEN <<12, 0, 0>> ELSE <<23, 30, 0>>]
ZoneTokens == [a \in {"+0000", "-0500", "+0530"} |->
                  IF a = "+0000" THEN 0 ELSE IF a = "-0500" THEN -18000 ELSE 19800]

\* parsedate_to_datetime(raw_date) followed by astimezone(timezone.utc):
\* "Mon, 1 Jan 2024 12:00:00 +0000" is <<"Mon,", "1", "Jan", "2024",
\* "12:00:00", "+0000">>; anything else does not parse (ValueError)
ParseDateUtc(text) ==
    IF /\ Len(text) = 6
       /\ text[2] \in DOMAIN DayTokens
       /\ text[3] \in DOMAIN MonthTokens
       /\ text[4] \in DOMAIN YearTokens
       /\ text[5] \in DOMAIN TimeTokens
       /\ text[6] \in DOMAIN ZoneTokens
    THEN [ok |-> TRUE,
          t |-> Timegm(<<YearTokens[text[4]], MonthTokens[text[3]], DayTokens[text[2]]>>
                       \o TimeTokens[text[5]]) - ZoneTokens[text[6]]]
    ELSE [ok |-> FALSE, t |-> 0]

\* int(s) / 1000 for the attribute values that occur: whole seconds of the
\* quotient (the fraction does not survive strftime); "range" tells whether
\* datetime.fromtimestamp accepts the value
IntTokens == {"1700000000000", "1704110400123", "1600000000000", "99999999999999999999999"}
IntDiv1000(a) ==
    CASE a = "1700000000000" -> [range |-> TRUE, secs |-> 1700000000]
      [] a = "1704110400123" -> [range |-> TRUE, secs |-> 1704110400]
      [] a = "1600000000000" -> [range |-> TRUE, secs |-> 1600000000]
      [] OTHER -> [range |-> FALSE, secs |-> 0]

\* datetime.strptime(stamp, "%Y%m%dT%H:%M:%S") for the stamps that occur
StampTokens == {"20231114T22:13:20", "20200913T12:26:40"}
strptime(a) ==
    IF a = "20231114T22:13:20" THEN <<2023, 11, 14, 22, 13, 20>>
    ELSE <<2020, 9, 13, 12, 26, 40>>

(***************************************************************************)
(* Timestamp Resolver                                                      *)
(***************************************************************************)
\* MboxMessage._is_google_chat
is_google_chat(headers) ==
    LET hit == {i \in 1..Len(headers) : headers[i].name = "X-Gmail-Labels"}
        raw_labels == IF hit = {} THEN <<>> ELSE headers[CHOOSE i \in hit : TRUE].values
        pieces == SplitComma(raw_labels[1], <<>>)
        labels == IF Len(raw_labels) = 1
                  THEN {Strip(pieces[i]) : i \in 1..Len(pieces)}
                  ELSE {raw_labels[i] : i \in 1..Len(raw_labels)}
    IN  <<"Chat">> \in labels

\* The XML texts that occur, by what ET.fromstring and
\* root.findall(".//cli:message", ns) give for them: per message element, the
\* {google:internal}time-stamp attribute ("none" when absent), the stamp of
\* its x:x element ("noelem" without the element, "nostamp" without the
\* attribute) and the ms of its time:time element ("noelem", "noms").
XmlElement(epoch, delay, gts) == [epoch |-> epoch, delay |-> delay, gts |-> gts]

XmlTexts == {"xml:epoch", "xml:epoch-word", "xml:epoch-empty", "xml:epoch-huge",
             "xml:no-message", "xml:bare-message", "xml:delay", "xml:delay-nostamp",
             "xml:delay-garbled", "xml:time", "xml:time-noms", "xml:time-word",
             "xml:all-three", "xml:delay-and-time", "xml:bare-then-epoch",
             "xml:epoch-then-epoch"}

XmlMessages(a) ==
    CASE a = "xml:epoch" -> <<XmlElement("1700000000000", "noelem", "noelem")>>
      [] a = "xml:epoch-word" -> <<XmlElement("abc", "noelem", "noelem")>>
      [] a = "xml:epoch-empty" -> <<XmlElement("", "noelem", "noelem")>>
      [] a = "xml:epoch-huge" ->
            <<XmlElement("99999999999999999999999", "noelem", "noelem")>>
      [] a = "xml:no-message" -> <<>>
      [] a = "xml:bare-message" -> <<XmlElement("none", "noelem", "noelem")>>
      [] a = "xml:delay" -> <<XmlElement("none", "20231114T22:13:20", "noelem")>>
      [] a = "xml:delay-nostamp" -> <<XmlElement("none", "nostamp", "noelem")>>
      [] a = "xml:delay-garbled" -> <<XmlElement("none", "2023-11-14", "noelem")>>
      [] a = "xml:time" -> <<XmlElement("none", "noelem", "1704110400123")>>
      [] a = "xml:time-noms" -> <<XmlElement("none", "noelem", "noms")>>
      [] a = "xml:time-word" -> <<XmlElement("none", "noelem", "abc")>>
      [] a = "xml:all-three" ->
            <<XmlElement("1700000000000", "20200913T12:26:40", "1704110400123")>>
      [] a = "xml:delay-and-time" ->
            <<XmlElement("none", "20200913T12:26:40", "1704110400123")>>
      [] a = "xml:bare-then-epoch" ->
            <<XmlElement("none", "noelem", "noelem"),
              XmlElement("1600000000000", "noelem", "noelem")>>
      [] OTHER ->
            <<XmlElement("1700000000000", "noelem", "noelem"),
              XmlElement("1600000000000", "noelem", "noelem")>>

\* ET.fromstring(xml_text): ParseError for anything that is not XML
ETFromString(text) ==
    IF Len(text) = 1 /\ text[1] \in XmlTexts
    THEN [ok |-> TRUE, messages |-> XmlMessages(text[1])]
    ELSE [ok |-> FALSE, messages |-> <<>>]

\* datetime.fromtimestamp(int(a) / 1000, tz=timezone.utc)
FromTimestampMs(a) ==
    IF a \notin IntTokens THEN [kind |-> "raise", exc |-> "ValueError", t |-> 0]
    ELSE IF ~IntDiv1000(a).range THEN [kind |-> "raise", exc |-> "OverflowError", t |-> 0]
    ELSE [kind |-> "return", exc |-> "none", t |-> IntDiv1000(a).secs]

\* body of the loop over the message elements (lines 141-152)
ChatElementTimestamp(e) ==
    IF e.epoch \notin {"none", ""} THEN FromTimestampMs(e.epoch)
    ELSE IF e.delay # "noelem"
    THEN IF e.delay = "nostamp" THEN [kind |-> "raise", exc |-> "KeyError", t |-> 0]
         ELSE IF e.delay \notin StampTokens
         THEN [kind |-> "raise", exc |-> "ValueError", t |-> 0]
         ELSE [kind |-> "return", exc |-> "none", t |-> Timegm(strptime(e.delay))]
    ELSE IF e.gts # "noelem"
    THEN IF e.gts = "noms" THEN [kind |-> "raise", exc |-> "KeyError", t |-> 0]
         ELSE FromTimestampMs(e.gts)
    ELSE [kind |-> "next", exc |-> "none", t |-> 0]

RECURSIVE ChatElements(_)
ChatElements(elems) ==
    IF elems = <<>> THEN [kind |-> "next", exc |-> "none", t |-> 0]
    ELSE LET r == ChatElementTimestamp(Head(elems))
         IN  IF r.kind = "next" THEN ChatElements(Tail(elems)) ELSE r

\* part.get("headers", {}).get("Content-Type", [])
PartContentTypes(part) ==
    LET hit == {i \in 1..Len(part.headers) : part.headers[i].name = "Content-Type"}
    IN  IF hit = {} THEN <<>> ELSE part.headers[CHOOSE i \in hit : TRUE].values

\* body of the loop over the parts (lines 129-152)
ChatPart(part) ==
    LET ct_list == PartContentTypes(part)
        root == ETFromString(part.payload.text)
    IN  IF ct_list = <<>> \/ ct_list[1] = <<>> \/ ct_list[1][1] # "text/xml"
        THEN [kind |-> "next", exc |-> "none", t |-> 0]
        \* part["payload"] is a list: it has no .get
        ELSE IF part.payload.type = "list"
        THEN [kind |-> "raise", exc |-> "AttributeError", t |-> 0]
        ELSE IF ~root.ok THEN [kind |-> "next", exc |-> "none", t |-> 0]
        ELSE ChatElements(root.messages)

RECURSIVE ChatParts(_)
ChatParts(parts) ==
    IF parts = <<>> THEN [kind |-> "next", exc |-> "none", t |-> 0]
    ELSE LET r == ChatPart(Head(parts))
         IN  IF r.kind = "next" THEN ChatParts(Tail(parts)) ELSE r

\* what "for part in payloads" visits: the parts of a multipart payload; for
\* a leaf, payloads is a dict and the loop sees its keys, which are strings
\* and are skipped by the isinstance test
PayloadsIterated(payload) == IF payload.type = "list" THEN payload.parts ELSE <<>>

\* MboxMessage._extract_chat_timestamp; now is datetime.now(timezone.utc)
extract_chat_timestamp(payload, now) ==
    LET r == ChatParts(PayloadsIterated(payload))
    IN  IF r.kind = "raise" THEN [exc |-> r.exc, t |-> 0, src |-> "chat"]
        ELSE IF r.kind = "return" THEN [exc |-> "none", t |-> r.t, src |-> "chat"]
        ELSE [exc |-> "none", t |-> now, src |-> "now"]

\* MboxMessage._extract_received_at
extract_received_at(m, doc, now) ==
    LET raw_date == MsgGet(m, "Date")
        dt == ParseDateUtc(raw_date.text)
    IN  IF is_google_chat(doc.headers) THEN extract_chat_timestamp(doc.payload, now)
        ELSE IF raw_date.found /\ raw_date.text # <<>> /\ dt.ok
        THEN [exc |-> "none", t |-> dt.t, src |-> "date"]
        ELSE [exc |-> "none", t |-> now, src |-> "now"]

(***************************************************************************)
(* MboxMessage(msg).as_tuple(): __post_init__ then as_tuple                *)
(***************************************************************************)
Raised(stage, exc) ==
    [exc |-> exc, stage |-> stage, doc |-> NoDoc, message_id |-> <<>>,
     as_json |-> JsonDumps(NoDoc), t |-> 0, src |-> "none",
     received_at |-> <<0, 0, 0, 0, 0, 0>>]

MboxMessage(m, now) ==
    LET d == msg_to_dict(m)
        ts == extract_received_at(m, d.doc, now)
    IN  IF d.exc # "none" THEN Raised("_msg_to_dict", d.exc)
        ELSE IF ts.exc # "none" THEN Raised("_extract_received_at", ts.exc)
        ELSE [exc |-> "none", stage |-> "as_tuple", doc |-> d.doc,
              message_id |-> get_or_generate_message_id(m, d.doc),
              as_json |-> JsonDumps(d.doc),
              t |-> ts.t, src |-> ts.src,
              received_at |-> strftime(ts.t)]

(***************************************************************************)
(* Raw messages (email.message.Message as the mbox reader delivers them)    *)
(***************************************************************************)
Plain(text) == <<[cs |-> "", bytes |-> text]>>
EncodedWord(cs, bytes) == <<[cs |-> cs, bytes |-> bytes]>>
Hdr(name, raw) == [name |-> name, raw |-> raw]
Leaf(headers, data) ==
    [headers |-> headers, multipart |-> FALSE, parts |-> <<>>, data |-> data]
Multipart(headers, parts) ==
    [headers |-> headers, multipart |-> TRUE, parts |-> parts, data |-> <<>>]

ContentType(ct) == Hdr("Content-Type", Plain(<<ct>>))

IdAbc == <<"<", "abc@x", ">">>
IdDef == <<"<", "def@y", ">">>
DateJan1 == <<"Mon,", "1", "Jan", "2024", "12:00:00", "+0000">>
DateDec31 == <<"Sun,", "31", "Dec", "2023", "23:30:00", "-0500">>
DateGarbled == <<"01/31/2007", "01:49AM">>

IdHeaders == {<<>>, <<Hdr("Message-ID", Plain(IdAbc \o <<" ">>))>>}
SubjectHeaders == {<<>>, <<Hdr("Subject", Plain(<<"Hi">>))>>}
DateHeaders == {<<>>, <<Hdr("Date", Plain(DateJan1))>>, <<Hdr("Date", Plain(DateDec31))>>,
                <<Hdr("Date", Plain(DateGarbled))>>}
LabelHeaders == {<<>>, <<Hdr("X-Gmail-Labels", Plain(<<"Inbox">>))>>,
                 <<Hdr("X-Gmail-Labels", Plain(<<"Inbox", ",", " ", "Chat">>))>>}
ExtraHeaders == {<<>>, <<Hdr("X-Bad", EncodedWord("latin-1", <<"caf", "0xFF">>))>>,
                 <<Hdr("X-Bad", EncodedWord("x-unknown", <<"abc">>))>>,
                 <<Hdr("X-Bad", EncodedWord("utf-8", <<"0xFF">>))>>}

XmlLeaf(x) == Leaf(<<ContentType("text/xml")>>, <<x>>)
TextPart == Leaf(<<ContentType("text/plain")>>, <<"hi">>)
PdfPart == Leaf(<<ContentType("application/pdf")>>, <<"%PDF", "0xFF">>)
Flat(x) == Multipart(<<ContentType("multipart/mixed")>>, <<TextPart, XmlLeaf(x)>>)
Nested(x) ==
    Multipart(<<ContentType("multipart/mixed")>>,
              <<TextPart, Multipart(<<ContentType("multipart/alternative")>>, <<XmlLeaf(x)>>)>>)

Bodies ==
    {Leaf(<<>>, <<"hello">>), XmlLeaf("xml:epoch"), Nested("xml:epoch"), PdfPart,
     Multipart(<<ContentType("multipart/mixed")>>, <<TextPart, PdfPart>>),
     Multipart(<<ContentType("multipart/mixed")>>,
               <<Leaf(<<Hdr("Content-type", Plain(<<"text/xml">>))>>, <<"xml:epoch">>)>>),
     Flat("<a><b></a>")}
    \cup {Flat(x) : x \in XmlTexts}

WithHeaders(hs, body) == [body EXCEPT !.headers = hs \o @]

\* the messages a single construction is tried on
MsgSpace ==
    {WithHeaders(i \o s \o d \o l \o x, b) :
        i \in IdHeaders, s \in SubjectHeaders, d \in DateHeaders,
        l \in LabelHeaders, x \in ExtraHeaders, b \in Bodies}

\* messages without a usable Message-ID, to compare fallback identifiers
A1 == Hdr("A", Plain(<<"1">>))
A3 == Hdr("A", Plain(<<"3">>))
B2 == Hdr("B", Plain(<<"2">>))
BlankId == Hdr("Message-ID", Plain(<<>>))

PairSpace ==
    {WithHeaders(hs, b) :
        hs \in {<<A1, B2>>, <<B2, A1>>, <<A1, A3, B2>>, <<A1, B2, A3>>, <<A3, A1, B2>>,
                <<A1>>, <<BlankId, A1, B2>>},
        b \in {Leaf(<<>>, <<"hello">>), Leaf(<<>>, <<"bye">>),
               Multipart(<<ContentType("multipart/mixed")>>, <<TextPart, PdfPart>>),
               Multipart(<<ContentType("multipart/mixed")>>, <<PdfPart, TextPart>>)}}

(***************************************************************************)
(* Ingestion Store: the emails table                                       *)
(* A database is [objects, rows, seq]: the schema objects that exist, the  *)
(* rows of emails in rowid order, and the AUTOINCREMENT counter.           *)
(***************************************************************************)
EmptyDb == [objects |-> {}, rows |-> <<>>, seq |-> 0]

\* subject GENERATED ALWAYS AS (json_extract("as_json", '$.headers.Subject[0]'))
Subject(as_json) ==
    LET hit == {i \in 1..Len(as_json.headers) : as_json.headers[i].name = "Subject"}
    IN  IF hit = {} THEN [null |-> TRUE, text |-> <<>>]
        ELSE [null |-> FALSE, text |-> as_json.headers[CHOOSE i \in hit : TRUE].values[1]]

\* MboxDatabase.create_table: CREATE TABLE / VIEW IF NOT EXISTS
create_table(db) == [db EXCEPT !.objects = @ \cup {"emails", "email_overview"}]

\* the insert without the uniqueness test (a plain INSERT into a table whose
\* message_id is not UNIQUE)
InsertWithoutUnique(db, rec) ==
    LET id == db.seq + 1
        row == [id |-> id, message_id |-> rec.message_id, as_json |-> rec.as_json,
                received_at |-> rec.received_at]
    IN  IF Subject(rec.as_json).null
        THEN [db EXCEPT !.seq = id]
        ELSE [db EXCEPT !.seq = id, !.rows = Append(@, row)]

\* one row through MboxDatabase.construct_insert_statement's
\* INSERT OR IGNORE against the constraints of create_table: a row that
\* violates message_id UNIQUE or subject NOT NULL is skipped; the rowid it
\* was given is used up either way
InsertOrIgnore(db, rec) ==
    LET id == db.seq + 1
        row == [id |-> id, message_id |-> rec.message_id, as_json |-> rec.as_json,
                received_at |-> rec.received_at]
    IN  IF \/ \E i \in 1..Len(db.rows) : db.rows[i].message_id = rec.message_id
           \/ Subject(rec.as_json).null
        THEN [db EXCEPT !.seq = id]
        ELSE [db EXCEPT !.seq = id, !.rows = Append(@, row)]

\* cursor.executemany(email_insert_statement, batch)
RECURSIVE ExecuteMany(_, _)
ExecuteMany(db, recs) ==
    IF recs = <<>> THEN db ELSE ExecuteMany(InsertOrIgnore(db, Head(recs)), Tail(recs))

\* create_indexes: nothing when index_received is in the index list
create_indexes(db) ==
    IF "index_received" \in db.objects THEN db
    ELSE [db EXCEPT !.objects = @ \cup {"index_received"}]

\* MboxMessage.as_tuple
as_tuple(r) == [message_id |-> r.message_id, as_json |-> r.as_json,
               received_at |-> r.received_at]

(***************************************************************************)
(* The mboxes process_mbox is run on                                       *)
(***************************************************************************)
Hello ==
    WithHeaders(<<Hdr("Message-ID", Plain(IdAbc)), Hdr("Date", Plain(DateJan1)),
                  Hdr("Subject", Plain(<<"Hi">>))>>, Leaf(<<>>, <<"hello">>))
\* same Message-ID as Hello, other content, no Date
HelloAgain ==
    WithHeaders(<<Hdr("Message-ID", Plain(IdAbc)), Hdr("Subject", Plain(<<"Re:", "Hi">>))>>,
                Leaf(<<>>, <<"bye">>))
NoSubject ==
    WithHeaders(<<Hdr("Message-ID", Plain(IdDef)), Hdr("Date", Plain(DateDec31))>>,
                Leaf(<<>>, <<"hello">>))
NoMessageId ==
    WithHeaders(<<Hdr("Subject", Plain(<<"Hi">>)), Hdr("Date", Plain(DateGarbled))>>,
                Leaf(<<>>, <<"hello">>))
ChatWord ==
    WithHeaders(<<Hdr("Message-ID", Plain(IdDef)), Hdr("Subject", Plain(<<"Hi">>)),
                  Hdr("X-Gmail-Labels", Plain(<<"Chat">>))>>, Flat("xml:epoch-word"))

\* the messages of the mboxes under study
IngestMsgs == {HelloAgain, NoSubject, NoMessageId, ChatWord}

SeqsUpTo(S, n) == UNION {[1..k -> S] : k \in 0..n}

\* the mboxes that fill the store before the mbox under study is ingested
Seeds == {<<>>, <<Hello>>, <<NoMessageId, HelloAgain>>}

\* a store is first filled from a seed mbox, then the mbox under study is
\* ingested, and ingested again
Plans == {<<s, m, m>> : s \in Seeds, m \in SeqsUpTo(IngestMsgs, MaxLen)}

NoPrev == [pc |-> "idle", err |-> "none", db |-> EmptyDb, start |-> EmptyDb, wrote |-> FALSE]
NoHist == [start |-> EmptyDb, written |-> <<>>, flushes |-> 0, wrote |-> FALSE,
           prev |-> NoPrev, ingested |-> <<>>]

Now == ClockBase + clock
Mbox == plan[run]

(***************************************************************************)
(* process_mbox, step by step                                              *)
(***************************************************************************)
Init ==
    /\ msgs = <<>> /\ outs = <<>>
    /\ clock = 0
    /\ plan \in Plans
    /\ run = 0 /\ pc = "idle" /\ pos = 0 /\ batch = <<>>
    /\ conn = EmptyDb /\ disk = EmptyDb
    /\ err = "none"
    /\ hist = NoHist

\* lines 16-35: connect, create_table (which commits), BEGIN
Open ==
    /\ pc \in {"idle", "done", "failed"}
    /\ run < Len(plan)
    /\ run' = run + 1
    /\ disk' = create_table(disk)
    /\ conn' = create_table(disk)
    /\ batch' = <<>> /\ pos' = 0
    /\ pc' = "loop" /\ err' = "none"
    /\ hist' = [hist EXCEPT !.start = create_table(disk), !.written = <<>>, !.wrote = FALSE,
                            !.flushes = 0,
                            !.prev = [pc |-> pc, err |-> err, db |-> disk,
                                       start |-> hist.start,
                                       wrote |-> hist.wrote]]
    /\ UNCHANGED <<msgs, outs, clock, plan>>

\* leaving the with block by an exception without a rollback: what the
\* transaction wrote so far is committed
AbortKeepsWrites(exc) ==
    /\ disk' = conn
    /\ conn' = conn
    /\ batch' = <<>>
    /\ pc' = "failed" /\ err' = exc
    /\ UNCHANGED <<msgs, outs, clock, plan, run, hist>>

\* the with block is left by an exception: the connection rolls back
Abort(exc) ==
    /\ conn' = disk
    /\ batch' = <<>>
    /\ pc' = "failed" /\ err' = exc
    /\ UNCHANGED <<msgs, outs, clock, plan, run, disk, hist>>

\* lines 38-45: one iteration of the loop
Iterate ==
    /\ pc = "loop" /\ pos < Len(Mbox)
    /\ LET record == MboxMessage(Mbox[pos + 1], Now)
           full == Append(batch, as_tuple(record))
       IN  IF record.exc # "none"
           THEN Abort(record.exc) /\ pos' = pos
           ELSE /\ pos' = pos + 1
                /\ IF Len(full) >= batch_size
                   THEN /\ conn' = ExecuteMany(conn, full)
                        /\ batch' = <<>>
                        /\ hist' = [hist EXCEPT
                                        !.written = @ \o full,
                                        !.flushes = @ + 1,
                                        !.wrote = conn'.rows # hist.start.rows]
                   ELSE /\ batch' = full
                        /\ UNCHANGED <<conn, hist>>
                /\ UNCHANGED <<msgs, outs, clock, plan, run, pc, disk, err>>

\* the end of the stream without the write of lines 48-49: what is left in
\* the batch is never submitted
LoadRestSkipped ==
    /\ pc = "loop" /\ pos = Len(Mbox)
    /\ pc' = "index"
    /\ UNCHANGED <<msgs, outs, clock, plan, run, pos, batch, conn, disk, err, hist>>

\* lines 48-49: load what is left (executemany is called only for a
\* non-empty batch)
LoadRest ==
    /\ pc = "loop" /\ pos = Len(Mbox)
    /\ conn' = IF batch # <<>> THEN ExecuteMany(conn, batch) ELSE conn
    /\ hist' = [hist EXCEPT !.written = @ \o batch,
                            !.flushes = IF batch # <<>> THEN @ + 1 ELSE @,
                            !.wrote = conn'.rows # hist.start.rows]
    /\ pc' = "index"
    /\ UNCHANGED <<msgs, outs, clock, plan, run, pos, batch, disk, err>>

\* line 51
CreateIndexes ==
    /\ pc = "index"
    /\ conn' = create_indexes(conn)
    /\ pc' = "commit"
    /\ UNCHANGED <<msgs, outs, clock, plan, run, pos, batch, disk, err, hist>>

\* the with block is left normally: the connection commits
Commit ==
    /\ pc = "commit"
    /\ disk' = conn
    /\ batch' = <<>>
    /\ pc' = "done"
    /\ hist' = [hist EXCEPT !.ingested = @ \o hist.written]
    /\ UNCHANGED <<msgs, outs, clock, plan, run, pos, conn, err>>

\* the input stream or the store fails, or the process is stopped, anywhere
\* between BEGIN and the commit: the open transaction is rolled back
Interrupt ==
    /\ pc \in {"loop", "index", "commit"}
    /\ pos' = pos
    /\ Abort("io")

\* the wall clock advances; it is read only by the constructions
Tick ==
    /\ pc \in {"idle", "loop"}
    /\ clock < MaxClock
    /\ clock' = clock + 1
    /\ UNCHANGED <<msgs, outs, plan, run, pc, pos, batch, conn, disk, err, hist>>

Next == Open \/ Iterate \/ LoadRest \/ CreateIndexes \/ Commit \/ Interrupt \/ Tick

Spec == Init /\ [][Next]_vars

(***************************************************************************)
(* MboxMessage constructed on its own                                      *)
(***************************************************************************)
InitMsg ==
    /\ msgs \in {<<m>> : m \in MsgSpace} \cup {<<a, b>> : a \in PairSpace, b \in PairSpace}
    /\ outs = <<>>
    /\ clock = 0
    /\ plan = <<>>
    /\ run = 0 /\ pc = "idle" /\ pos = 0 /\ batch = <<>>
    /\ conn = EmptyDb /\ disk = EmptyDb
    /\ err = "none"
    /\ hist = NoHist

Construct ==
    /\ Len(outs) < Len(msgs)
    /\ outs' = Append(outs, MboxMessage(msgs[Len(outs) + 1], Now))
    /\ UNCHANGED <<msgs, clock, plan, run, pc, pos, batch, conn, disk, err, hist>>

NextMsg == Construct \/ Tick

SpecMsg == InitMsg /\ [][NextMsg]_vars

(***************************************************************************)
(* Vocabulary of the properties                                            *)
(***************************************************************************)
Finished == pc \in {"done", "failed"}
Ids(db) == {db.rows[i].message_id : i \in 1..Len(db.rows)}
RowsWithId(db, id) == {i \in 1..Len(db.rows) : db.rows[i].message_id = id}

\* the identifier the Identity Resolver gives a message
ResolvedId(m) == get_or_generate_message_id(m, msg_to_dict(m).doc)
IsExplicitId(id) == id # <<>> /\ id[1] # "sha256:"

\* this invocation ingests the same mbox as the one before it, which completed
Rerun == run >= 2 /\ plan[run] = plan[run - 1] /\ hist.prev.pc = "done"

\* C1: Idempotent re-ingestion.  When process_mbox has been run again on the
\* mbox of the previous, completed run, against the store that run left, the
\* second run raises nothing of its own (it ends "done" unless the input or
\* the store failed under it) and the emails table has the same number of rows
\* and the same set of message_id values as after the first run.
C1_IdempotentReingestion ==
    (Rerun /\ Finished) =>
        /\ err \in {"none", "io"}
        /\ Len(disk.rows) = Len(hist.prev.db.rows)
        /\ Ids(disk) = Ids(hist.prev.db)

\* a second run that completed over a store holding at least two rows
C1_Witness ==
    Rerun /\ pc = "done" /\ Len(disk.rows) >= 2 /\ Len(Mbox) = 3

AtMostOnePerId(db) == \A id \in Ids(db) : Cardinality(RowsWithId(db, id)) = 1

TimesIngested(id) ==
    Cardinality({k \in 1..Len(hist.ingested) : hist.ingested[k].message_id = id})

\* every row of db is still in db2, at its place and with its contents
RowsKept(db, db2) ==
    /\ Len(db2.rows) >= Len(db.rows)
    /\ \A i \in 1..Len(db.rows) : db2.rows[i] = db.rows[i]

\* C2: Dedup without overwrite.  At most one row exists per message_id in
\* every state of the store; an explicit Message-ID that was ingested two or
\* more times (same batch, other batch or other run) has exactly one row; and
\* a stored row is never changed by a later insert.
C2_DedupWithoutOverwrite ==
    /\ [](/\ AtMostOnePerId(conn) /\ AtMostOnePerId(disk)
          /\ \A k \in 1..Len(hist.ingested) :
                LET id == hist.ingested[k].message_id
                IN  (pc = "done" /\ IsExplicitId(id) /\ TimesIngested(id) >= 2)
                        => Cardinality(RowsWithId(disk, id)) = 1)
    /\ [][RowsKept(disk, disk') /\ (pc' # "failed" => RowsKept(conn, conn'))]_vars

\* C3: No message is silently discarded.  After a successful run, every
\* message of the mbox, whatever headers it lacks, has a row in emails whose
\* message_id is the message's resolved identifier.
C3_NoMessageDiscarded ==
    pc = "done" =>
        \A k \in 1..Len(Mbox) : RowsWithId(disk, ResolvedId(Mbox[k])) # {}

\* C4: The timestamp resolver is total: no construction of a message ends
\* with an exception raised by _extract_received_at (and the chat functions
\* it calls).
C4_ResolverNeverRaises ==
    \A i \in 1..Len(outs) : outs[i].stage # "_extract_received_at"

\* the leaves of a Document, depth-first in document order
RECURSIVE LeavesOf(_)
RECURSIVE LeavesOfAll(_)
LeavesOf(doc) ==
    IF doc.payload.type = "list" THEN LeavesOfAll(doc.payload.parts) ELSE <<doc.payload>>
LeavesOfAll(docs) ==
    IF docs = <<>> THEN <<>> ELSE LeavesOf(Head(docs)) \o LeavesOfAll(Tail(docs))

XmlLeavesOf(doc) ==
    SelectSeq(LeavesOf(doc), LAMBDA p : p.type = "text" /\ p.content_type = "text/xml")

CarriesTimestamp(e) ==
    e.epoch \notin {"none", ""} \/ e.delay # "noelem" \/ e.gts # "noelem"

\* nothing in the payload tree could give a chat timestamp: it has no
\* text/xml leaf, or those it has are not XML or hold no message element
\* with a timestamp
NothingResolves(doc) ==
    \A i \in 1..Len(XmlLeavesOf(doc)) :
        LET root == ETFromString(XmlLeavesOf(doc)[i].text)
        IN  ~root.ok \/ \A j \in 1..Len(root.messages) : ~CarriesTimestamp(root.messages[j])

DateOf(m) == ParseDateUtc(MsgGet(m, "Date").text)

\* C5: Chat fall-through.  A message labelled Chat from whose payload no chat
\* timestamp resolves gets the UTC conversion of its Date header when that
\* header parses, and the wall-clock time only when it is missing or does not
\* parse.
C5_ChatFallThrough ==
    \A i \in 1..Len(outs) :
        (/\ outs[i].exc = "none"
         /\ is_google_chat(outs[i].doc.headers)
         /\ NothingResolves(outs[i].doc))
        => IF DateOf(msgs[i]).ok
           THEN outs[i].src = "date" /\ outs[i].t = DateOf(msgs[i]).t
           ELSE outs[i].src = "now"

\* the first text/xml leaf of the tree is XML whose first message element
\* carries an epoch-millisecond time-stamp
FirstXmlLeafHasEpoch(doc) ==
    /\ XmlLeavesOf(doc) # <<>>
    /\ LET root == ETFromString(XmlLeavesOf(doc)[1].text)
       IN  /\ root.ok /\ root.messages # <<>>
           /\ root.messages[1].epoch \in IntTokens
           /\ IntDiv1000(root.messages[1].epoch).range

EpochOfFirstXmlLeaf(doc) ==
    IntDiv1000(ETFromString(XmlLeavesOf(doc)[1].text).messages[1].epoch).secs

\* C6: Chat timestamp wins over Date.  For a message labelled Chat whose
\* payload tree has, at any depth or as the message itself, a text/xml leaf
\* whose first message element carries an epoch-millisecond time-stamp, the
\* resolved instant is the UTC conversion of that value, Date header or not.
C6_ChatTimestampWins ==
    \A i \in 1..Len(outs) :
        LET d == msg_to_dict(msgs[i])
        IN  (d.exc = "none" /\ is_google_chat(d.doc.headers) /\ FirstXmlLeafHasEpoch(d.doc))
            => /\ outs[i].exc = "none"
               /\ outs[i].src = "chat"
               /\ outs[i].t = EpochOfFirstXmlLeaf(d.doc)

\* C7: The header decoder never fails: no construction of a message ends
\* with an exception raised while _msg_to_dict collects the headers.
C7_HeaderDecoderNeverFails ==
    \A i \in 1..Len(outs) : outs[i].stage # "_msg_to_dict"

\* C8 as stated: the message Hello (Message-ID: <abc@x>, Date: Mon, 1 Jan
\* 2024 12:00:00 +0000, Subject: Hi, body hello) ingested alone into an empty
\* store yields exactly one row, with message_id "abc@x", subject "Hi",
\* received_at "2024-01-01 12:00:00" and a single text leaf holding "hello".
HelloRow(id) ==
    /\ Len(disk.rows) = 1
    /\ disk.rows[1].message_id = id
    /\ Subject(disk.rows[1].as_json) = [null |-> FALSE, text |-> <<"Hi">>]
    /\ disk.rows[1].received_at = <<2024, 1, 1, 12, 0, 0>>
    /\ disk.rows[1].as_json.payload.type = "text"
    /\ disk.rows[1].as_json.payload.parts = <<>>
    /\ disk.rows[1].as_json.payload.text = <<"hello">>

HelloAlone == run = 1 /\ pc = "done" /\ Mbox = <<Hello>>

C8_AsStated == HelloAlone => HelloRow(<<"abc@x">>)

\* C8, amended: the same message yields exactly one row whose message_id is
\* the header value with its angle brackets, "<abc@x>"; subject, received_at
\* and payload are as stated.
C8_EndToEndRow == HelloAlone => HelloRow(<<"<", "abc@x", ">">>)

C8_Witness == HelloAlone /\ Len(disk.rows) = 1 /\ disk.seq = 1

\* both constructions succeeded on messages without a usable Message-ID
BothFallback ==
    /\ Len(outs) = 2
    /\ \A i \in 1..2 : outs[i].exc = "none" /\ ~IsExplicitId(outs[i].message_id)

\* C9 as stated: for two messages without a Message-ID, equal Documents get
\* the same fallback id and Documents that differ in any part of their
\* structure, the order of differently named headers included, get
\* different ids.
C9_AsStated ==
    BothFallback => (outs[1].doc = outs[2].doc <=> outs[1].message_id = outs[2].message_id)

\* equality of two msg_dict values as Python compares dicts: the same keys
\* with the same values, whatever the order the keys were inserted in
RECURSIVE DictEqual(_, _)
DictEqual(d1, d2) ==
    /\ {d1.headers[i] : i \in 1..Len(d1.headers)} = {d2.headers[i] : i \in 1..Len(d2.headers)}
    /\ [d1.payload EXCEPT !.parts = <<>>] = [d2.payload EXCEPT !.parts = <<>>]
    /\ Len(d1.payload.parts) = Len(d2.payload.parts)
    /\ \A i \in 1..Len(d1.payload.parts) : DictEqual(d1.payload.parts[i], d2.payload.parts[i])

\* C9, amended: two messages without a Message-ID get the same fallback id
\* exactly when their Documents have the same header names with the same
\* value lists and the same payload tree; the relative order of differently
\* named headers does not enter the id.
C9_FallbackIdentifier ==
    BothFallback =>
        (DictEqual(outs[1].doc, outs[2].doc) <=> outs[1].message_id = outs[2].message_id)

\* two Documents that differ only in the order of their header names
C9_Witness ==
    /\ BothFallback
    /\ outs[1].doc # outs[2].doc
    /\ DictEqual(outs[1].doc, outs[2].doc)
    /\ outs[1].message_id = outs[2].message_id

\* the rows a complete, uninterrupted run on mbox leaves, started on db now
Project(db) == [i \in 1..Len(db.rows) |->
                   [id |-> db.rows[i].id, message_id |-> db.rows[i].message_id,
                    as_json |-> db.rows[i].as_json]]
Uninterrupted(db, mbox) ==
    ExecuteMany(db, [k \in 1..Len(mbox) |-> as_tuple(MboxMessage(mbox[k], Now))])

\* C10 as stated: when process_mbox has failed, the persisted rows are those
\* of the batches fully written before the failure.
C10_AsStated ==
    pc = "failed" => disk.rows = ExecuteMany(hist.start, hist.written).rows

\* this run restarts, from the beginning, the mbox on which the run before
\* it failed
Restart == run >= 2 /\ plan[run] = plan[run - 1] /\ hist.prev.pc = "failed"

\* C10, amended: the writes of one invocation form a single transaction.
\* When process_mbox has failed, at whatever point, the store is exactly as
\* it was when that invocation began (no batch of it is persisted, whole or
\* partial); a restart on the same mbox begins from that very store and,
\* when it completes, leaves the rows (rowid, message_id, document) of an
\* uninterrupted run from it.
C10_RunScopedAtomicity ==
    /\ pc = "failed" => disk = hist.start
    /\ (Restart /\ pc # "idle") => hist.start = hist.prev.start
    /\ (Restart /\ pc = "done") =>
            Project(disk) = Project(Uninterrupted(hist.prev.start, Mbox))

\* a restart completed after a run that failed with a written batch of new rows
C10_Witness ==
    /\ Restart /\ pc = "done"
    /\ hist.prev.wrote
    /\ Len(disk.rows) > Len(hist.prev.start.rows)

(***************************************************************************)
(* Batch flushing                                                          *)
(***************************************************************************)
\* r is the tuple of message m, constructed at some reading of the clock
RecordOf(r, m) ==
    LET x == MboxMessage(m, ClockBase)
    IN  /\ x.exc = "none"
        /\ r.message_id = x.message_id /\ r.as_json = x.as_json
        /\ IF x.src = "now"
           THEN \E c \in 0..MaxClock : r.received_at = strftime(ClockBase + c)
           ELSE r.received_at = x.received_at

\* rs are the tuples of the messages ms, one each, in the same order
RecordsOf(rs, ms) ==
    /\ Len(rs) = Len(ms)
    /\ \A i \in 1..Len(rs) : RecordOf(rs[i], ms[i])

\* the executemany calls an input of n messages takes at threshold b: one
\* per full batch and one more for a non-empty rest
FlushesFor(n, b) == (n \div b) + (IF n % b = 0 THEN 0 ELSE 1)

LoopEnded == pc \in {"index", "commit", "done"}

\* C11: Batch flushing.  After each iteration of the loop the batch holds
\* fewer than batch_size records, namely those read since the last flush; a
\* flush has happened exactly once per batch_size records read, and once
\* more at the end of the stream when records are left; when the loop has
\* ended, the records submitted to the insert statement are those of all the
\* messages of the mbox, once each, in input order, and the batch is empty or
\* has been written.
C11_BatchFlushing ==
    /\ pc = "loop" =>
          /\ Len(batch) < batch_size
          /\ Len(batch) = pos % batch_size
          /\ hist.flushes = pos \div batch_size
          /\ Len(hist.written) = pos - Len(batch)
          /\ RecordsOf(hist.written \o batch, SubSeq(Mbox, 1, pos))
    /\ LoopEnded =>
          /\ pos = Len(Mbox)
          /\ hist.flushes = FlushesFor(Len(Mbox), batch_size)
          /\ RecordsOf(hist.written, Mbox)
          /\ \/ batch = <<>>
             \/ batch = SubSeq(hist.written, Len(hist.written) - Len(batch) + 1,
                               Len(hist.written))

\* the loop has ended on an mbox that filled the batch at least once and
\* left a rest, so both kinds of flush have happened
C11_Witness ==
    /\ pc = "index"
    /\ hist.flushes >= 2
    /\ batch # <<>> /\ Len(batch) < batch_size
    /\ Len(hist.written) = Len(Mbox)

(***************************************************************************)
(* Chat timestamp selection                                                *)
(***************************************************************************)
\* the parts _extract_chat_timestamp parses: top-level text leaves with a
\* Content-Type header that begins with text/xml
IsConsulted(part) ==
    /\ part.payload.type = "text"
    /\ PartContentTypes(part) # <<>>
    /\ PartContentTypes(part)[1] = <<"text/xml">>

\* the message elements of the first such part, in document order
FirstMessages(doc) ==
    LET parts == SelectSeq(PayloadsIterated(doc.payload), IsConsulted)
    IN  IF parts = <<>> THEN <<>> ELSE ETFromString(parts[1].payload.text).messages

\* the first of (a) epoch attribute, (b) delay stamp, (c) vendor ms that
\* resolves for one message element
FirstResolving(e) ==
    IF e.epoch \in IntTokens /\ IntDiv1000(e.epoch).range
    THEN [found |-> TRUE, t |-> IntDiv1000(e.epoch).secs]
    ELSE IF e.delay \in StampTokens
    THEN [found |-> TRUE, t |-> Timegm(strptime(e.delay))]
    ELSE IF e.gts \in IntTokens /\ IntDiv1000(e.gts).range
    THEN [found |-> TRUE, t |-> IntDiv1000(e.gts).secs]
    ELSE [found |-> FALSE, t |-> 0]

\* C12: Chat timestamp selection is first found, fixed priority.  For a
\* message labelled Chat whose construction returns and whose first parsed
\* text/xml part holds message elements, only the first message element is
\* consulted: the chat timestamp is the first of its epoch attribute, delay
\* stamp and vendor ms that resolves, and when none of them resolves no chat
\* timestamp is returned -- a later message element never supplies it.
C12_FirstFoundFixedPriority ==
    \A i \in 1..Len(outs) :
        (/\ outs[i].exc = "none"
         /\ is_google_chat(outs[i].doc.headers)
         /\ FirstMessages(outs[i].doc) # <<>>)
        => LET first == FirstResolving(FirstMessages(outs[i].doc)[1])
           IN  IF first.found
               THEN outs[i].src = "chat" /\ outs[i].t = first.t
               ELSE outs[i].src # "chat"

====
